---- MODULE Spec2Model ----
(***************************************************************************)
(* Model of the RAG agent control loop: the conversation state and its     *)
(* reducers (state/schemas.ts), the agent node, the tool node and the      *)
(* router (nodes/index.ts), the retrieval tool (tools/kb-retrieval.ts),    *)
(* the graph START -> agent -> [router] -> tools -> agent | __end__ and    *)
(* the public entry points (agents/rag-agent.ts) on top of a checkpoint    *)
(* store keyed by thread id (checkpointers/index.ts).                      *)
(***************************************************************************)
EXTENDS Integers, Sequences, FiniteSets, TLC

\* ------------------------------------------------------------------------
\* Bounds of the exploration
\* ------------------------------------------------------------------------

\* number of invocations (invokeAgent calls) issued in one behaviour
MaxInvocations == 2

\* number of capability responses, over one behaviour, that differ from the
\* plain ones (one well-formed tool call, a retrieval that returns chunks)
MaxQuirks == 1

\* number of results one retrieval returns, where the retrieval tool is
\* exercised on its own
MaxTexts == 4

\* largest maxRetries withRetry is called with
MaxRetriesArg == 3

\* number of agent steps of one invocation that ask for a tool, where
\* invocations overlap
MaxToolRounds == 2

\* ------------------------------------------------------------------------
\* Program constants
\* ------------------------------------------------------------------------

\* routeAgentResponse: `if (iterations >= 10)`
MaxIterations == 10

\* ConfigSchema.retrievalTopK default
retrievalTopK == 5

KB_TOOL_NAME == "knowledge_base_retrieval"

Threads == {"t1", "t2"}

Queries == {"q1", ""}

\* the slots of the invocations in flight
Runs == {1, 2}

NoTopK == 0

\* ------------------------------------------------------------------------
\* Messages
\* ------------------------------------------------------------------------

NoPayload ==
    [status |-> "", message |-> "", query |-> "", totalResults |-> 0,
     chunks |-> <<>>]

\* new HumanMessage(query)
HumanMessage(query) ==
    [role |-> "human", text |-> query, tool_calls |-> <<>>,
     tool_call_id |-> 0, payload |-> NoPayload]

\* the AIMessage the model returns: text and an ordered list of tool calls
AIMessage(text, calls) ==
    [role |-> "ai", text |-> text, tool_calls |-> calls,
     tool_call_id |-> 0, payload |-> NoPayload]

\* new ToolMessage({content, tool_call_id}); the content of a tool message is
\* the serialised payload of the tool, or a plain error text of the executor
ToolMessage(text, payload, id) ==
    [role |-> "tool", text |-> text, tool_calls |-> <<>>,
     tool_call_id |-> id, payload |-> payload]

\* new SystemMessage(SYSTEM_PROMPT)
SystemMessage ==
    [role |-> "system", text |-> "SYSTEM_PROMPT", tool_calls |-> <<>>,
     tool_call_id |-> 0, payload |-> NoPayload]

Last(s) == s[Len(s)]

\* ------------------------------------------------------------------------
\* Conversation state and its reducers
\* ------------------------------------------------------------------------

\* the defaults of the channels of AgentStateAnnotation
DefaultState ==
    [messages |-> <<>>, currentStep |-> "idle", error |-> "null",
     iterations |-> 0]

\* the reducer of the messages channel (MessagesAnnotation): new messages are
\* added after the existing ones
messagesReducer_prepend(prev, new) == new \o prev

messagesReducer(prev, new) == prev \o new

\* applying a node's update: messages go through the reducer, the other
\* channels are last-write-wins and keep their value when the update has no
\* such key
ApplyUpdate(state, upd) ==
    [messages    |-> IF "messages" \in DOMAIN upd
                     THEN messagesReducer(state.messages, upd.messages)
                     ELSE state.messages,
     currentStep |-> IF "currentStep" \in DOMAIN upd
                     THEN upd.currentStep ELSE state.currentStep,
     error       |-> IF "error" \in DOMAIN upd
                     THEN upd.error ELSE state.error,
     iterations  |-> IF "iterations" \in DOMAIN upd
                     THEN upd.iterations ELSE state.iterations]

\* ------------------------------------------------------------------------
\* Router
\* ------------------------------------------------------------------------

\* the router with the two checks in the other order: pending tool calls
\* are looked at before the iteration guard
routeAgentResponse_toolsFirst(state) ==
    IF Len(state.messages) = 0 THEN "__end__"
    ELSE IF Len(Last(state.messages).tool_calls) > 0 THEN "tools"
    ELSE "__end__"

\* the router with a guard that lets one more iteration through
routeAgentResponse_lateGuard(state) ==
    IF state.iterations > MaxIterations THEN "__end__"
    ELSE IF Len(state.messages) = 0 THEN "__end__"
    ELSE IF Len(Last(state.messages).tool_calls) > 0 THEN "tools"
    ELSE "__end__"

routeAgentResponse(state) ==
    IF state.iterations >= MaxIterations THEN "__end__"
    ELSE IF Len(state.messages) = 0 THEN "__end__"
    ELSE IF Len(Last(state.messages).tool_calls) > 0 THEN "tools"
    ELSE "__end__"

\* ------------------------------------------------------------------------
\* Agent node
\* ------------------------------------------------------------------------

\* the model called with the history alone
ModelInput_noSystem(state) == state.messages

\* what agentNode hands to the model: the system prompt, then the history
ModelInput(state) == <<SystemMessage>> \o state.messages

\* the agent node returning the whole history with the response
agentNode_returnsHistory(state, response) ==
    [messages |-> state.messages \o <<response>>, currentStep |-> "agent",
     iterations |-> state.iterations + 1]

\* the agent node with a counter that is not advanced
agentNode_noCount(state, response) ==
    [messages |-> <<response>>, currentStep |-> "agent",
     iterations |-> state.iterations]

\* the update agentNode returns once the model has answered with `response`
agentNode(state, response) ==
    [messages |-> <<response>>, currentStep |-> "agent",
     iterations |-> state.iterations + 1]

\* ------------------------------------------------------------------------
\* Retrieval tool and tool node
\* ------------------------------------------------------------------------

NonEmptyText(text) == text # ""

\* the retrieval tool without the filter on the text of the results
kbRetrievalTool_noFilter(call, out) ==
    IF out.kind = "throw"
    THEN [status |-> "error",
          message |-> "Failed to retrieve documents: " \o out.error,
          query |-> call.query, totalResults |-> 0, chunks |-> <<>>]
    ELSE LET results == out.texts
         IN  IF Len(results) = 0
             THEN [status |-> "no_results",
                   message |-> "No relevant results found in the knowledge base for this query. Try rephrasing.",
                   query |-> call.query, totalResults |-> 0, chunks |-> <<>>]
             ELSE [status |-> "success", message |-> "",
                   query |-> call.query, totalResults |-> Len(results),
                   chunks |-> [i \in 1..Len(results) |->
                                  [rank |-> i, text |-> results[i]]]]

\* the retrieval tool reporting the bare message of the error
kbRetrievalTool_rawError(call, out) ==
    IF out.kind = "throw"
    THEN [status |-> "error", message |-> out.error,
          query |-> call.query, totalResults |-> 0, chunks |-> <<>>]
    ELSE LET results == SelectSeq(out.texts, NonEmptyText)
         IN  IF Len(results) = 0
             THEN [status |-> "no_results",
                   message |-> "No relevant results found in the knowledge base for this query. Try rephrasing.",
                   query |-> call.query, totalResults |-> 0, chunks |-> <<>>]
             ELSE [status |-> "success", message |-> "",
                   query |-> call.query, totalResults |-> Len(results),
                   chunks |-> [i \in 1..Len(results) |->
                                  [rank |-> i, text |-> results[i]]]]

\* kbRetrievalTool: the payload returned for one call, given what the
\* retrieval call did (`out.kind` is "ok" with the texts of the returned
\* results, "" standing for a result without text, or "throw" with the
\* message of the error)
kbRetrievalTool(call, out) ==
    IF out.kind = "throw"
    THEN [status |-> "error",
          message |-> "Failed to retrieve documents: " \o out.error,
          query |-> call.query, totalResults |-> 0, chunks |-> <<>>]
    ELSE LET results == SelectSeq(out.texts, NonEmptyText)
         IN  IF Len(results) = 0
             THEN [status |-> "no_results",
                   message |-> "No relevant results found in the knowledge base for this query. Try rephrasing.",
                   query |-> call.query, totalResults |-> 0, chunks |-> <<>>]
             ELSE [status |-> "success", message |-> "",
                   query |-> call.query, totalResults |-> Len(results),
                   chunks |-> [i \in 1..Len(results) |->
                                  [rank |-> i, text |-> results[i]]]]

\* process.env.RETRIEVAL_TOP_K: not set, or a positive number
UnsetEnv == 0

EnvTopK == {UnsetEnv, 2, 8}

\* getConfig().retrievalTopK: z.coerce.number().positive().default(5)
configRetrievalTopK(raw) == IF raw = UnsetEnv THEN retrievalTopK ELSE raw

\* a tool that always asks for the configured number of results
numberOfResults_ignoresTopK(topK, raw) == configRetrievalTopK(raw)

\* topK ?? config.retrievalTopK
numberOfResults(topK, raw) ==
    IF topK = NoTopK THEN configRetrievalTopK(raw) ELSE topK

\* the RetrieveCommand the tool sends for a call
RetrieveCommand(call, raw) ==
    [text |-> call.query, numberOfResults |-> numberOfResults(call.topK, raw)]

\* ragTools = [kbRetrievalTool]
ragTools == {KB_TOOL_NAME}

\* a tool executor that runs the retrieval tool whatever the name of the call
runTool_anyName(call, out) ==
    ToolMessage("", kbRetrievalTool(call, out), call.id)

\* the tool executor's handling of one call: the tool is looked up by name,
\* its output becomes the content of a tool message with the id of the call;
\* a call to a tool that is not registered yields an error text instead
runTool(call, out) ==
    IF call.name \in ragTools
    THEN ToolMessage("", kbRetrievalTool(call, out), call.id)
    ELSE ToolMessage("Error: Tool not found. Please fix your mistakes.",
                     NoPayload, call.id)

\* the tool node with its outputs collected in the reverse order
toolNode_reversed(state, outs) ==
    LET calls == Last(state.messages).tool_calls
        n == Len(calls)
    IN  [messages |-> [i \in 1..n |->
                          ToolMessage("", kbRetrievalTool(calls[n + 1 - i], outs[n + 1 - i]),
                                      calls[n + 1 - i].id)]]

\* a tool node that reports a failed retrieval in the error channel
toolNode_recordsError(state, outs) ==
    LET calls == Last(state.messages).tool_calls
    IN  [messages |-> [i \in 1..Len(calls) |-> runTool(calls[i], outs[i])],
         error |-> IF \E i \in 1..Len(calls) : outs[i].kind = "throw"
                   THEN "retrieval failed" ELSE "null"]

\* toolNode = new ToolNode([...ragTools]): runs the tool calls of the last
\* message, one output per call in call order; the update has only messages
toolNode(state, outs) ==
    LET calls == Last(state.messages).tool_calls
    IN  [messages |-> [i \in 1..Len(calls) |-> runTool(calls[i], outs[i])]]

\* ------------------------------------------------------------------------
\* Capabilities: what the model and the retrieval may answer
\* ------------------------------------------------------------------------

\* ids of tool calls are issued by the model provider and are unique
CallId(state, i) == 2 * Len(state.messages) + i

Call(state, i, name, topK) ==
    [id |-> CallId(state, i), name |-> name, query |-> "kq", topK |-> topK]

FinalAnswer == AIMessage("answer", <<>>)

PlainCall(state) ==
    AIMessage("thinking", <<Call(state, 1, KB_TOOL_NAME, NoTopK)>>)

PlainResponses(state) == {FinalAnswer, PlainCall(state)}

QuirkResponses(state) ==
    { AIMessage("thinking", <<Call(state, 1, KB_TOOL_NAME, NoTopK),
                              Call(state, 2, KB_TOOL_NAME, 3)>>),
      AIMessage("thinking", <<Call(state, 1, "web_search", NoTopK)>>) }

PlainOutcome == [kind |-> "ok", texts |-> <<"c1", "c2", "c3">>, error |-> ""]

QuirkOutcomes ==
    { [kind |-> "ok", texts |-> <<>>, error |-> ""],
      [kind |-> "ok", texts |-> <<"", "c1">>, error |-> ""],
      [kind |-> "throw", texts |-> <<>>, error |-> "timeout"],
      [kind |-> "throw", texts |-> <<>>, error |-> ""] }

RetrievalOutcomes == {PlainOutcome} \cup QuirkOutcomes

RECURSIVE CountQuirks(_)
CountQuirks(outs) ==
    IF outs = <<>> THEN 0
    ELSE (IF Head(outs) \in QuirkOutcomes THEN 1 ELSE 0) + CountQuirks(Tail(outs))

\* getMessageText for a message whose content is a string
getMessageText(message) == message.text

\* ------------------------------------------------------------------------
\* Graph
\* ------------------------------------------------------------------------

\* the graph with a conditional edge after tools in place of the fixed one:
\* the run ends after the first tool step
buildRagAgentGraph_toolsToEnd ==
    [edges       |-> [__start__ |-> "agent", tools |-> "__end__"],
     conditional |-> [agent |-> [tools |-> "tools", __end__ |-> "__end__"]]]

\* buildRagAgentGraph: addEdge("__start__", "agent"),
\* addConditionalEdges("agent", routeAgentResponse, {tools, __end__}),
\* addEdge("tools", "agent")
buildRagAgentGraph ==
    [edges       |-> [__start__ |-> "agent", tools |-> "agent"],
     conditional |-> [agent |-> [tools |-> "tools", __end__ |-> "__end__"]]]

\* ------------------------------------------------------------------------
\* State of the system
\* ------------------------------------------------------------------------

VARIABLES
    store,      \* checkpoint store: thread id -> latest conversation state
    created,    \* thread ids that have a checkpoint
    run,        \* the invocations: slot -> position and working state
    invoked,    \* number of calls and requests issued so far
    quirks,     \* number of non-plain capability responses so far
    last,       \* the step taken last, with what the run and the store of
                \* its thread held before it
    env         \* the configured checkpointerType and the cached _agent

vars == <<store, created, run, invoked, quirks, last, env>>

\* pc is "IDLE", the node about to run ("agent", "tools"), "route" (the agent
\* node is done and its conditional edge is pending), "__end__", "RETURNED"
\* (invokeAgent returned `result`) or "FAILED" (invokeAgent threw).
\* trace lists the nodes the run has entered; agentSteps and toolSteps count
\* the nodes it has completed; loaded is the checkpoint the run started from.
\* mode is "invoke" (agent.invoke) or "stream" (agent.stream with streamMode
\* "values"); yields lists the chunks a stream has handed to its consumer.
IdleRun ==
    [pc |-> "IDLE", thread |-> "", query |-> "", isNew |-> FALSE,
     st |-> DefaultState, loaded |-> DefaultState,
     agentSteps |-> 0, toolSteps |-> 0, route |-> "", result |-> "",
     trace |-> <<>>, mode |-> "invoke", yields |-> <<>>]

\* a stream that hands over what the step wrote (streamMode "updates")
Emit_updates(rn, st) ==
    IF rn.mode = "stream"
    THEN Append(rn.yields,
                [st EXCEPT !.messages =
                   SubSeq(st.messages, Len(rn.st.messages) + 1,
                          Len(st.messages))])
    ELSE rn.yields

\* streamMode "values": once the input is applied, and after every step, the
\* values of the state are handed to the consumer of the stream
Emit(rn, st) ==
    IF rn.mode = "stream" THEN Append(rn.yields, st) ELSE rn.yields

NoStep ==
    [op |-> "none", r |-> 0, before |-> IdleRun, stored |-> DefaultState,
     outs |-> <<>>, input |-> <<>>, request |-> <<>>, topKEnv |-> UnsetEnv,
     storeBefore |-> [t \in Threads |-> DefaultState]]

\* input is what the step handed to the model (agent steps only); request
\* holds, per tool call of a tool step, the commands sent to the retrieval
\* (none for a tool that is not registered)
Step(op, r, outs) ==
    [op |-> op, r |-> r, before |-> run[r], stored |-> store[run[r].thread],
     outs |-> outs,
     input |-> IF op \in {"agent", "agent_fail"}
               THEN ModelInput(run[r].st) ELSE <<>>,
     request |-> IF op = "tools"
                 THEN LET calls == Last(run[r].st.messages).tool_calls
                      IN  [i \in 1..Len(calls) |->
                             IF calls[i].name \in ragTools
                             THEN <<RetrieveCommand(calls[i], UnsetEnv)>>
                             ELSE <<>>]
                 ELSE <<>>,
     topKEnv |-> UnsetEnv, storeBefore |-> store]

Free(r) == run[r].pc \in {"IDLE", "RETURNED", "FAILED"}

\* ConfigSchema.checkpointerType
CheckpointerTypes == {"memory", "postgres", "redis"}

\* a checkpointer that stands in for every configured type
getCheckpointer_fallback(type) == "MemorySaver"

\* getCheckpointer: the saver for the configured type; "throw" stands for
\* the Error thrown for postgres and redis
getCheckpointer(type) ==
    CASE type = "memory"   -> "MemorySaver"
      [] type = "postgres" -> "throw"
      [] type = "redis"    -> "throw"
      [] OTHER             -> "MemorySaver"

\* compileRagAgent: the compiled graph, named by its checkpointer ("none"
\* without one); the Error of getCheckpointer passes through
compileRagAgent(withCheckpointer, type) ==
    IF withCheckpointer THEN getCheckpointer(type) ELSE "none"

\* getAgent: the cached agent, else compileRagAgent({checkpointer: true});
\* _agent is assigned only when the compilation returned
getAgent(e) ==
    IF e.agent # "null" THEN e.agent
    ELSE compileRagAgent(TRUE, e.checkpointerType)

\* the entry points that start with getAgent()
EntryPoints ==
    {"invokeAgent", "streamAgent", "streamAgentEvents",
     "continueConversation", "getThreadState"}

\* generateThreadId yields an id no thread has; the ids not yet used are
\* interchangeable, so the first of them stands for it
FreshThread ==
    IF "t1" \notin created THEN "t1" ELSE "t2"

Init ==
    /\ store = [t \in Threads |-> DefaultState]
    /\ created = {}
    /\ run = [r \in Runs |-> IdleRun]
    /\ invoked = 0
    /\ quirks = 0
    /\ last = NoStep
    /\ env \in {[checkpointerType |-> c, agent |-> "null"] :
                  c \in CheckpointerTypes}

\* ------------------------------------------------------------------------
\* Operations
\* ------------------------------------------------------------------------

\* an invocation that starts the counter afresh
InputState_reset(loaded, q) ==
    [ApplyUpdate(loaded, [messages |-> <<HumanMessage(q)>>])
       EXCEPT !.iterations = 0]

\* what agent.invoke starts from: the checkpoint of the thread (the channel
\* defaults when there is none) with the input {messages: [userMessage]}
\* applied
InputState(loaded, q) ==
    ApplyUpdate(loaded, [messages |-> <<HumanMessage(q)>>])

\* invokeAgent up to the first node: the checkpoint is loaded, the input is
\* applied and saved, and the edge from __start__ is followed.
Begin(r, t, q, input, mode) ==
    /\ Free(r)
    /\ invoked < MaxInvocations
    /\ t \in created \/ t = FreshThread
    /\ getAgent(env) # "throw"
    /\ env' = [env EXCEPT !.agent = getAgent(env)]
    /\ LET st0 == InputState(store[t], q)
           first == buildRagAgentGraph.edges.__start__
       IN  /\ run' = [run EXCEPT ![r] =
                        [pc |-> first, thread |-> t, query |-> q,
                         isNew |-> t \notin created,
                         st |-> st0, loaded |-> store[t],
                         agentSteps |-> 0, toolSteps |-> 0,
                         route |-> "", result |-> "",
                         trace |-> <<first>>, mode |-> mode,
                         yields |-> Emit([IdleRun EXCEPT !.mode = mode], st0)]]
           /\ store' = [store EXCEPT ![t] = st0]
           /\ last' = [op |-> "invoke", r |-> r, before |-> run[r],
                       stored |-> store[t], outs |-> <<>>, input |-> input,
                       request |-> <<>>, topKEnv |-> UnsetEnv,
                       storeBefore |-> store]
    /\ created' = created \cup {t}
    /\ invoked' = invoked + 1
    /\ UNCHANGED quirks

\* an invocation issued when the one before it has ended
StartRunAs(r, t, q, input, mode) ==
    /\ \A r2 \in Runs : Free(r2) /\ r <= r2
    /\ Begin(r, t, q, input, mode)

StartRun(r, t, q, input) == StartRunAs(r, t, q, input, "invoke")

Invoke(r, t, q) == StartRun(r, t, q, <<>>)

\* streamAgent up to the first node: as invokeAgent, with agent.stream
StreamAgent(r, t, q) == StartRunAs(r, t, q, <<>>, "stream")

\* an entry point called while the configured checkpointer cannot be
\* provided: getAgent() throws before anything else happens
EntryFails(entry) ==
    /\ invoked < MaxInvocations
    /\ getAgent(env) = "throw"
    /\ invoked' = invoked + 1
    /\ last' = [NoStep EXCEPT !.op = "unavailable", !.input = <<entry>>]
    /\ UNCHANGED <<store, created, run, quirks, env>>

\* ---- POST /api/chat (server.ts) ----

\* the `message` field of a request body: its JavaScript type and, for a
\* string, its characters
Message(type, chars) == [type |-> type, chars |-> chars]

Bodies ==
    { Message("undefined", <<>>), Message("number", <<>>),
      Message("string", <<>>), Message("string", <<" ">>),
      Message("string", <<"q", "1">>),
      Message("string", <<" ", "q", "1", " ">>) }

RECURSIVE TrimStart(_)
TrimStart(cs) ==
    IF cs # <<>> /\ Head(cs) = " " THEN TrimStart(Tail(cs)) ELSE cs

RECURSIVE TrimEnd(_)
TrimEnd(cs) ==
    IF cs # <<>> /\ cs[Len(cs)] = " "
    THEN TrimEnd(SubSeq(cs, 1, Len(cs) - 1))
    ELSE cs

\* String.prototype.trim
Trim(cs) == TrimEnd(TrimStart(cs))

RECURSIVE Join(_)
Join(cs) == IF cs = <<>> THEN "" ELSE Head(cs) \o Join(Tail(cs))

\* !message
Falsy(message) ==
    \/ message.type = "undefined"
    \/ message.type = "string" /\ message.chars = <<>>

\* the negation of
\* !message || typeof message !== "string" || !message.trim()
ValidMessage(message) ==
    ~ \/ Falsy(message)
      \/ message.type # "string"
      \/ Trim(message.chars) = <<>>

\* the handler: 400 for an invalid message, otherwise invokeAgent with the
\* trimmed message and no thread id (a generated, new thread); an error of
\* invokeAgent is answered with status 500
ChatRequest(r, body) ==
    \/ /\ ~ValidMessage(body)
       /\ invoked < MaxInvocations
       /\ invoked' = invoked + 1
       /\ last' = [NoStep EXCEPT !.op = "chat_rejected", !.input = <<body>>]
       /\ UNCHANGED <<store, created, run, quirks, env>>
    \/ /\ ValidMessage(body)
       /\ FreshThread \notin created
       /\ StartRun(r, FreshThread, Join(Trim(body.chars)), <<body>>)
    \/ /\ ValidMessage(body)
       /\ invoked < MaxInvocations
       /\ getAgent(env) = "throw"
       /\ invoked' = invoked + 1
       /\ last' = [NoStep EXCEPT !.op = "unavailable",
                                 !.input = <<"invokeAgent", "POST /api/chat">>]
       /\ UNCHANGED <<store, created, run, quirks, env>>

\* the agent node completing without its state being saved
AgentDone_noSave(r, response) ==
    /\ run[r].pc = "agent"
    /\ LET st1 == ApplyUpdate(run[r].st, agentNode(run[r].st, response))
       IN  run' = [run EXCEPT ![r].pc = "route", ![r].st = st1,
                              ![r].agentSteps = @ + 1]
    /\ last' = Step("agent", r, <<>>)
    /\ UNCHANGED <<store, created, invoked, env>>

\* the agent node completing with its state saved under every thread id
AgentDone_sharedStore(r, response) ==
    /\ run[r].pc = "agent"
    /\ LET st1 == ApplyUpdate(run[r].st, agentNode(run[r].st, response))
       IN  /\ run' = [run EXCEPT ![r].pc = "route", ![r].st = st1,
                                 ![r].agentSteps = @ + 1]
           /\ store' = [t \in Threads |-> st1]
    /\ last' = Step("agent", r, <<>>)
    /\ UNCHANGED <<created, invoked, env>>

\* the agent node completes: the model answered with `response`; the update
\* is applied and the state is saved
AgentDone(r, response) ==
    /\ run[r].pc = "agent"
    /\ LET st1 == ApplyUpdate(run[r].st, agentNode(run[r].st, response))
       IN  /\ run' = [run EXCEPT ![r].pc = "route", ![r].st = st1,
                                 ![r].agentSteps = @ + 1,
                                 ![r].yields = Emit(run[r], st1)]
           /\ store' = [store EXCEPT ![run[r].thread] = st1]
    /\ last' = Step("agent", r, <<>>)
    /\ UNCHANGED <<created, invoked, env>>

AgentStep(r) ==
    \/ /\ \E response \in PlainResponses(run[r].st) : AgentDone(r, response)
       /\ UNCHANGED quirks
    \/ /\ quirks < MaxQuirks
       /\ \E response \in QuirkResponses(run[r].st) : AgentDone(r, response)
       /\ quirks' = quirks + 1

\* a failure of the model call that is turned into an answer
AgentFail_swallow(r) ==
    /\ run[r].pc = "agent"
    /\ quirks < MaxQuirks
    /\ quirks' = quirks + 1
    /\ LET st1 == ApplyUpdate(run[r].st,
                     agentNode(run[r].st, AIMessage("model error", <<>>)))
       IN  /\ run' = [run EXCEPT ![r].pc = "route", ![r].st = st1,
                                 ![r].agentSteps = @ + 1]
           /\ store' = [store EXCEPT ![run[r].thread] = st1]
    /\ last' = Step("agent_fail", r, <<>>)
    /\ UNCHANGED <<created, invoked, env>>

\* a failure of the model call after part of the update was saved
AgentFail_partial(r) ==
    /\ run[r].pc = "agent"
    /\ quirks < MaxQuirks
    /\ quirks' = quirks + 1
    /\ run' = [run EXCEPT ![r].pc = "FAILED"]
    /\ store' = [store EXCEPT ![run[r].thread].currentStep = "agent",
                              ![run[r].thread].iterations = @ + 1]
    /\ last' = Step("agent_fail", r, <<>>)
    /\ UNCHANGED <<created, invoked, env>>

\* a failure of the model call after which the node calls the model again
AgentFail_retry(r) ==
    /\ run[r].pc = "agent"
    /\ quirks < MaxQuirks
    /\ quirks' = quirks + 1
    /\ last' = Step("agent_fail", r, <<>>)
    /\ UNCHANGED <<store, created, run, invoked, env>>

\* the model call of the agent node throws: agentNode returns no update, the
\* error leaves the graph and invokeAgent
AgentFail(r) ==
    /\ run[r].pc = "agent"
    /\ quirks < MaxQuirks
    /\ quirks' = quirks + 1
    /\ run' = [run EXCEPT ![r].pc = "FAILED"]
    /\ last' = Step("agent_fail", r, <<>>)
    /\ UNCHANGED <<store, created, invoked, env>>

\* a conditional edge whose router writes to the state it looks at
Route_marks(r) ==
    /\ run[r].pc = "route"
    /\ LET decision == routeAgentResponse(run[r].st)
           target == buildRagAgentGraph.conditional.agent[decision]
       IN  run' = [run EXCEPT ![r].route = decision, ![r].pc = target,
                              ![r].st.currentStep = "route",
                              ![r].trace = Append(@, target)]
    /\ last' = Step("route", r, <<>>)
    /\ UNCHANGED <<store, created, invoked, quirks, env>>

\* the conditional edge after the agent node
Route(r) ==
    /\ run[r].pc = "route"
    /\ LET decision == routeAgentResponse(run[r].st)
           target == buildRagAgentGraph.conditional.agent[decision]
       IN  run' = [run EXCEPT ![r].route = decision, ![r].pc = target,
                              ![r].trace = Append(@, target)]
    /\ last' = Step("route", r, <<>>)
    /\ UNCHANGED <<store, created, invoked, quirks, env>>

\* the tool node completes, the state is saved and the edge from tools is
\* followed
ToolStep(r) ==
    /\ run[r].pc = "tools"
    /\ LET calls == Last(run[r].st.messages).tool_calls
           target == buildRagAgentGraph.edges.tools
       IN  \E outs \in [1..Len(calls) -> RetrievalOutcomes] :
             /\ \A i \in 1..Len(calls) :
                  calls[i].name \notin ragTools => outs[i] = PlainOutcome
             /\ quirks + CountQuirks(outs) <= MaxQuirks
             /\ quirks' = quirks + CountQuirks(outs)
             /\ LET st1 == ApplyUpdate(run[r].st, toolNode(run[r].st, outs))
                IN  /\ run' = [run EXCEPT ![r].pc = target, ![r].st = st1,
                                          ![r].toolSteps = @ + 1,
                                          ![r].trace = Append(@, target),
                                          ![r].yields = Emit(run[r], st1)]
                    /\ store' = [store EXCEPT ![run[r].thread] = st1]
             /\ last' = Step("tools", r, outs)
    /\ UNCHANGED <<created, invoked, env>>

\* invokeAgent returning the text of the first message of the result
Return_firstMessage(r) ==
    /\ run[r].pc = "__end__"
    /\ run' = [run EXCEPT ![r].pc = "RETURNED",
                          ![r].result = getMessageText(run[r].st.messages[1])]
    /\ last' = Step("return", r, <<>>)
    /\ UNCHANGED <<store, created, invoked, quirks, env>>

\* the graph reached __end__: invokeAgent returns the text of the last
\* message; a stream is done
Return(r) ==
    /\ run[r].pc = "__end__"
    /\ run' = [run EXCEPT ![r].pc = "RETURNED",
                          ![r].result =
                             IF run[r].mode = "invoke"
                             THEN getMessageText(Last(run[r].st.messages))
                             ELSE ""]
    /\ last' = Step("return", r, <<>>)
    /\ UNCHANGED <<store, created, invoked, quirks, env>>

\* getThreadState: agent.getState(threadConfig), the values of the latest
\* checkpoint of the thread
getThreadState(threadId) == store[threadId]

Next ==
    \/ \E r \in Runs, t \in Threads, q \in Queries : Invoke(r, t, q)
    \/ \E entry \in EntryPoints : EntryFails(entry)
    \/ \E r \in Runs, body \in Bodies : ChatRequest(r, body)
    \/ \E r \in Runs : AgentStep(r)
    \/ \E r \in Runs : AgentFail(r)
    \/ \E r \in Runs : Route(r)
    \/ \E r \in Runs : ToolStep(r)
    \/ \E r \in Runs : Return(r)

Spec == Init /\ [][Next]_vars

\* a step of a run that is under way; the model and the retrieval settle, so
\* a node that was entered completes, and the graph and invokeAgent go on
RunStep ==
    \E r \in Runs : AgentStep(r) \/ AgentFail(r) \/ Route(r) \/ ToolStep(r)
                       \/ Return(r)

SpecFair == Spec /\ WF_vars(RunStep)

\* the invocations made with streamAgent
NextStream ==
    \/ \E r \in Runs, t \in Threads, q \in Queries : StreamAgent(r, t, q)
    \/ \E r \in Runs : AgentStep(r)
    \/ \E r \in Runs : AgentFail(r)
    \/ \E r \in Runs : Route(r)
    \/ \E r \in Runs : ToolStep(r)
    \/ \E r \in Runs : Return(r)

SpecStream == Init /\ [][NextStream]_vars

\* the query of the invocation in slot r, where invocations overlap
ConcurrentQuery(r) == IF r = 1 THEN "q1" ELSE "q2"

\* invokeAgent called while another invocation may be awaiting its model or
\* its retrieval: nothing in invokeAgent or getAgent waits for it. Each slot
\* holds one invocation.
InvokeConcurrently(r, t) ==
    /\ run[r].pc = "IDLE"
    /\ Begin(r, t, ConcurrentQuery(r), <<>>, "invoke")

\* the agent node completes with a plain response
PlainAgentStep(r) ==
    /\ \/ AgentDone(r, FinalAnswer)
       \/ /\ run[r].agentSteps < MaxToolRounds
          /\ AgentDone(r, PlainCall(run[r].st))
    /\ UNCHANGED quirks

\* callers that do not wait for one another
NextConcurrent ==
    \/ \E r \in Runs, t \in Threads : InvokeConcurrently(r, t)
    \/ \E r \in Runs : PlainAgentStep(r)
    \/ \E r \in Runs : AgentFail(r)
    \/ \E r \in Runs : Route(r)
    \/ \E r \in Runs : ToolStep(r)
    \/ \E r \in Runs : Return(r)

SpecConcurrent == Init /\ [][NextConcurrent]_vars

\* ------------------------------------------------------------------------
\* Entry points called with a config of the caller
\* ------------------------------------------------------------------------

\* an optional argument that was not passed
Undefined == [k \in {} |-> ""]

\* the object spread { ...a, ...b }: the own keys of b are copied over those
\* of a, each with its whole value
Spread(a, b) ==
    [k \in DOMAIN a \cup DOMAIN b |-> IF k \in DOMAIN b THEN b[k] ELSE a[k]]

\* createThreadConfig(threadId, additionalConfig)
createThreadConfig(threadId, additionalConfig) ==
    [configurable |-> Spread([thread_id |-> threadId], additionalConfig)]

\* the RunnableConfig a caller passes as options.config: none, one without
\* the key configurable, or one whose configurable names a thread
CallerConfigs ==
    {Undefined, [tags |-> "demo"]}
    \cup {[configurable |-> [thread_id |-> t]] : t \in Threads}

\* the entry points that take AgentInvokeOptions
OptionEntries == {"invokeAgent", "streamAgent", "streamAgentEvents"}

\* the config the entry point hands to agent.invoke, agent.stream or
\* agent.streamEvents: { ...threadConfig, ...config } with the keys the entry
\* point adds
RunConfig(entry, thread, config) ==
    LET merged == Spread(createThreadConfig(thread, Undefined), config)
    IN  CASE entry = "streamAgent" ->
               Spread(merged, [streamMode |-> "values"])
          [] entry = "streamAgentEvents" ->
               Spread(merged, [version |-> "v2"])
          [] OTHER -> merged

\* how the graph is run under a config: agent.stream, agent.streamEvents or
\* agent.invoke
RunMode(entry) ==
    CASE entry = "streamAgent"       -> "stream"
      [] entry = "streamAgentEvents" -> "events"
      [] OTHER                       -> "invoke"

\* invokeAgent, streamAgent or streamAgentEvents called with
\* {query, threadId, config} up to the first node; the checkpointer works on
\* the thread that the config handed to the graph names
CallEntry(r, entry, threadId, q, config) ==
    /\ threadId \in created \/ threadId = FreshThread
    /\ StartRunAs(r, RunConfig(entry, threadId, config).configurable.thread_id,
                  q, <<entry, threadId, config>>, RunMode(entry))

\* continueConversation refusing a thread id that has no checkpoint
ContinueConversation_existingOnly(r, threadId, q, config) ==
    /\ threadId \in created
    /\ \A r2 \in Runs : Free(r2) /\ r <= r2
    /\ invoked < MaxInvocations
    /\ getAgent(env) # "throw"
    /\ env' = [env EXCEPT !.agent = getAgent(env)]
    /\ LET rc == Spread(createThreadConfig(threadId, Undefined), config)
           t == rc.configurable.thread_id
           st0 == InputState(store[t], q)
           first == buildRagAgentGraph.edges.__start__
       IN  /\ t \in created \/ t = FreshThread
           /\ run' = [run EXCEPT ![r] =
                        [IdleRun EXCEPT !.pc = first, !.thread = t,
                                        !.query = q,
                                        !.isNew = t \notin created,
                                        !.st = st0, !.loaded = store[t],
                                        !.trace = <<first>>]]
           /\ store' = [store EXCEPT ![t] = st0]
           /\ created' = created \cup {t}
           /\ last' = [NoStep EXCEPT
                         !.op = "invoke", !.r = r, !.before = run[r],
                         !.stored = store[t],
                         !.input = <<"continueConversation", threadId, config>>,
                         !.storeBefore = store]
    /\ invoked' = invoked + 1
    /\ UNCHANGED quirks

\* continueConversation(threadId, query, config) up to the first node:
\* getAgent(), createThreadConfig(threadId), the human message of the query
\* as the input of agent.invoke under { ...threadConfig, ...config }. The
\* thread id is taken as given, with or without a checkpoint.
ContinueConversation(r, threadId, q, config) ==
    /\ threadId \in created \/ threadId = FreshThread
    /\ \A r2 \in Runs : Free(r2) /\ r <= r2
    /\ invoked < MaxInvocations
    /\ getAgent(env) # "throw"
    /\ env' = [env EXCEPT !.agent = getAgent(env)]
    /\ LET rc == Spread(createThreadConfig(threadId, Undefined), config)
           t == rc.configurable.thread_id
           st0 == InputState(store[t], q)
           first == buildRagAgentGraph.edges.__start__
       IN  /\ t \in created \/ t = FreshThread
           /\ run' = [run EXCEPT ![r] =
                        [IdleRun EXCEPT !.pc = first, !.thread = t,
                                        !.query = q,
                                        !.isNew = t \notin created,
                                        !.st = st0, !.loaded = store[t],
                                        !.trace = <<first>>]]
           /\ store' = [store EXCEPT ![t] = st0]
           /\ created' = created \cup {t}
           /\ last' = [NoStep EXCEPT
                         !.op = "invoke", !.r = r, !.before = run[r],
                         !.stored = store[t],
                         !.input = <<"continueConversation", threadId, config>>,
                         !.storeBefore = store]
    /\ invoked' = invoked + 1
    /\ UNCHANGED quirks

\* the entry points called one after another, with and without a config
NextEntry ==
    \/ \E r \in Runs, entry \in OptionEntries, t \in Threads, q \in Queries,
          config \in CallerConfigs : CallEntry(r, entry, t, q, config)
    \/ \E r \in Runs, t \in Threads, q \in Queries, config \in CallerConfigs :
          ContinueConversation(r, t, q, config)
    \/ \E r \in Runs : PlainAgentStep(r)
    \/ \E r \in Runs : AgentFail(r)
    \/ \E r \in Runs : Route(r)
    \/ \E r \in Runs : ToolStep(r)
    \/ \E r \in Runs : Return(r)

SpecEntry == Init /\ [][NextEntry]_vars

\* ------------------------------------------------------------------------
\* The retrieval tool on its own
\* ------------------------------------------------------------------------

\* the text of a retrieval result; "" stands for a result whose content or
\* text is missing or empty (r.content?.text ?? "")
Texts == {"", "a", "b"}

\* what client.send(command) may do: return up to MaxTexts results, or throw
KbOutcomes ==
    {[kind |-> "ok", texts |-> s, error |-> ""] :
       s \in UNION {[1..k -> Texts] : k \in 0..MaxTexts}}
    \cup {[kind |-> "throw", texts |-> <<>>, error |-> e] :
            e \in {"", "timeout"}}

\* one invocation of the tool by the tool executor, with RETRIEVAL_TOP_K as
\* `raw`: last.input holds the ai message with the call and the tool message
\* made of the tool's output, last.request the command sent, last.outs what
\* the retrieval call did
KbInvoke(topK, raw, out) ==
    /\ LET call == [id |-> 1, name |-> KB_TOOL_NAME, query |-> "kq",
                    topK |-> topK]
       IN  last' = [NoStep EXCEPT !.op = "kb", !.outs = <<out>>,
                                  !.input = <<AIMessage("thinking", <<call>>),
                                              runTool(call, out)>>,
                                  !.request = <<<<RetrieveCommand(call, raw)>>>>,
                                  !.topKEnv = raw]
    /\ UNCHANGED <<store, created, run, invoked, quirks, env>>

NextKb ==
    \E topK \in {NoTopK, 3}, raw \in EnvTopK, out \in KbOutcomes :
        KbInvoke(topK, raw, out)

SpecKb == Init /\ [][NextKb]_vars

\* ------------------------------------------------------------------------
\* The LLM configuration on its own
\* ------------------------------------------------------------------------

\* an environment variable that is not set
NotSet == "<not set>"

\* process.env as getConfig reads it: LLM_PROVIDER and the two API keys
ProcessEnvs ==
    [LLM_PROVIDER : {NotSet, "bedrock", "openai", "anthropic", "gemini"},
     OPENAI_API_KEY : {NotSet, "", "sk-o"},
     ANTHROPIC_API_KEY : {NotSet, "", "sk-a"}]

LlmProviders == {"bedrock", "openai", "anthropic"}

Optional(raw) == IF raw = NotSet THEN "undefined" ELSE raw

\* getConfig: ConfigSchema.parse of the environment; llmProvider is
\* z.enum([...]).default("bedrock"), the keys are optional strings; a
\* value outside the enum makes parse throw
getConfig(penv) ==
    IF penv.LLM_PROVIDER \notin LlmProviders \cup {NotSet}
    THEN [ok |-> FALSE, llmProvider |-> "", openaiApiKey |-> "",
          anthropicApiKey |-> ""]
    ELSE [ok |-> TRUE,
          llmProvider |-> IF penv.LLM_PROVIDER = NotSet THEN "bedrock"
                          ELSE penv.LLM_PROVIDER,
          openaiApiKey |-> Optional(penv.OPENAI_API_KEY),
          anthropicApiKey |-> Optional(penv.ANTHROPIC_API_KEY)]

\* !key for an optional string
Missing(key) == key \in {"undefined", ""}

\* validateLlmConfig: "ok" when it returns, else the message of its Error
validateLlmConfig(config) ==
    CASE config.llmProvider = "bedrock" -> "ok"
      [] config.llmProvider = "openai" ->
           IF Missing(config.openaiApiKey)
           THEN "OPENAI_API_KEY is required when LLM_PROVIDER=openai"
           ELSE "ok"
      [] config.llmProvider = "anthropic" ->
           IF Missing(config.anthropicApiKey)
           THEN "ANTHROPIC_API_KEY is required when LLM_PROVIDER=anthropic"
           ELSE "ok"
      [] OTHER -> "ok"

\* getLLM: the class of the chat model it builds
getLLM(config) ==
    CASE config.llmProvider = "bedrock" -> "ChatBedrockConverse"
      [] config.llmProvider = "openai" -> "ChatOpenAI"
      [] config.llmProvider = "anthropic" -> "ChatAnthropic"
      [] OTHER -> "Unsupported LLM provider"

ConfigFunctions == {"validateLlmConfig", "getLLM"}

\* a call of validateLlmConfig or getLLM in a process started with `penv`:
\* last.input holds the environment and the parsed configuration, last.outs
\* what the call returned or threw
ConfigCall(penv, fn) ==
    /\ LET config == getConfig(penv)
           result == IF ~config.ok THEN "ZodError"
                     ELSE IF fn = "validateLlmConfig"
                          THEN validateLlmConfig(config)
                          ELSE getLLM(config)
       IN  last' = [NoStep EXCEPT !.op = fn, !.input = <<penv, config>>,
                                  !.outs = <<result>>]
    /\ UNCHANGED <<store, created, run, invoked, quirks, env>>

NextConfig == \E penv \in ProcessEnvs, fn \in ConfigFunctions : ConfigCall(penv, fn)

SpecConfig == Init /\ [][NextConfig]_vars

\* ------------------------------------------------------------------------
\* withRetry on its own
\* ------------------------------------------------------------------------

\* what one call of fn does: it resolves with a value, or rejects with an
\* Error or with a value that is not an Error
FnOutcomes ==
    { [kind |-> "ok", isError |-> FALSE, message |-> "v1"],
      [kind |-> "fail", isError |-> TRUE, message |-> "e1"],
      [kind |-> "fail", isError |-> FALSE, message |-> "e2"] }

\* err instanceof Error ? err : new Error(String(err))
AsError(err) == [kind |-> "fail", isError |-> TRUE, message |-> err.message]

\* let lastError: Error | undefined
UndefinedError == [kind |-> "fail", isError |-> FALSE, message |-> "undefined"]

\* what withRetry does, in order: a call of fn, a sleep, and its own end
Event(kind, attempt, delay, value) ==
    [kind |-> kind, attempt |-> attempt, delay |-> delay, value |-> value]

\* a delay that grows by initialDelay with each attempt
backoffDelay_linear(initialDelay, attempt) == initialDelay * (attempt + 1)

\* initialDelay * Math.pow(2, attempt)
backoffDelay(initialDelay, attempt) == initialDelay * (2 ^ attempt)

\* the for loop of withRetry from `attempt` on; fn's k-th call does
\* outcomes[k]; the result is the sequence of events up to the return or the
\* throw
RECURSIVE retryLoop(_, _, _, _, _, _)
retryLoop(outcomes, maxRetries, initialDelay, attempt, lastError, trace) ==
    IF attempt > maxRetries
    THEN Append(trace, Event("throw", attempt, 0, lastError))
    ELSE LET o == outcomes[attempt + 1]
             called == Append(trace, Event("call", attempt, 0, o))
         IN  IF o.kind = "ok"
             THEN Append(called, Event("return", attempt, 0, o))
             ELSE retryLoop(outcomes, maxRetries, initialDelay, attempt + 1,
                            AsError(o),
                            IF attempt < maxRetries
                            THEN Append(called,
                                   Event("sleep", attempt,
                                         backoffDelay(initialDelay, attempt), o))
                            ELSE called)

withRetry(outcomes, maxRetries, initialDelay) ==
    retryLoop(outcomes, maxRetries, initialDelay, 0, UndefinedError, <<>>)

\* one call of withRetry: last.outs is what the calls of fn would do,
\* last.input the arguments, last.request the events that took place
RetryCall(outcomes, maxRetries, initialDelay) ==
    /\ last' = [NoStep EXCEPT
                  !.op = "withRetry", !.outs = outcomes,
                  !.input = <<maxRetries, initialDelay>>,
                  !.request = withRetry(outcomes, maxRetries, initialDelay)]
    /\ UNCHANGED <<store, created, run, invoked, quirks, env>>

NextRetry ==
    \E maxRetries \in 0..MaxRetriesArg, initialDelay \in {1, 1000} :
      \E outcomes \in [1..(maxRetries + 1) -> FnOutcomes] :
        RetryCall(outcomes, maxRetries, initialDelay)

SpecRetry == Init /\ [][NextRetry]_vars

\* ------------------------------------------------------------------------
\* Vocabulary of the properties
\* ------------------------------------------------------------------------

IsAiWithCalls(m) == m.role = "ai" /\ Len(m.tool_calls) > 0

\* the conversation states the system holds: working states, checkpoints,
\* and the ones the last step started from
KnownStates ==
    {run[r].st : r \in Runs} \cup {run[r].loaded : r \in Runs}
    \cup {store[t] : t \in Threads} \cup {last.before.st, last.stored}

\* the messages the last step added to the state of its run
Appended ==
    SubSeq(run[last.r].st.messages, Len(last.before.st.messages) + 1,
           Len(run[last.r].st.messages))

\* ------------------------------------------------------------------------
\* C1
\* ------------------------------------------------------------------------

\* the decision the priority order prescribes for a state
PriorityDecision(s) ==
    IF s.iterations >= 10 THEN "__end__"
    ELSE IF Len(s.messages) > 0 /\ IsAiWithCalls(Last(s.messages))
         THEN "tools"
         ELSE "__end__"

\* C1: routeAgentResponse follows the priority order on every state: end when
\* iterations >= 10 (also when the last message is an ai message with tool
\* calls), otherwise tools exactly when the last message is an ai message with
\* a non-empty tool-call list, end in every other case (empty history, last
\* message human or tool); and the decision a run took is that one.
C1_RouterPriority ==
    /\ \A s \in KnownStates : routeAgentResponse(s) = PriorityDecision(s)
    /\ \A r \in Runs :
         run[r].pc \in {"tools", "__end__", "RETURNED"}
           => run[r].route = PriorityDecision(run[r].st)

\* a run was routed to end by the cap while its last message requests tools
C1_Witness ==
    \E r \in Runs :
      /\ run[r].pc = "__end__"
      /\ run[r].route = "__end__"
      /\ run[r].st.iterations >= 10
      /\ IsAiWithCalls(Last(run[r].st.messages))

\* ------------------------------------------------------------------------
\* C2
\* ------------------------------------------------------------------------

\* C2: for every query and every thread id, new or resumed, iterations is
\* <= 10 when invokeAgent completes.
C2_IterationsAtMostTen ==
    \A r \in Runs : run[r].pc = "RETURNED" => run[r].st.iterations <= 10

\* ------------------------------------------------------------------------
\* C3
\* ------------------------------------------------------------------------

\* the index of the ai message that precedes position i (0 when there is none)
PrevAi(msgs, i) ==
    LET S == {j \in 1..(i - 1) : msgs[j].role = "ai"}
    IN  IF S = {} THEN 0 ELSE CHOOSE j \in S : \A k \in S : k <= j

\* the index of the ai message that follows position i (0 when there is none)
NextAi(msgs, i) ==
    LET S == {j \in (i + 1)..Len(msgs) : msgs[j].role = "ai"}
    IN  IF S = {} THEN 0 ELSE CHOOSE j \in S : \A k \in S : k >= j

CallIds(m) == {m.tool_calls[k].id : k \in 1..Len(m.tool_calls)}

ToolCallPairing(msgs) ==
    /\ \A i \in 1..Len(msgs) :
         (IsAiWithCalls(msgs[i]) /\ NextAi(msgs, i) # 0)
           => \A k \in 1..Len(msgs[i].tool_calls) :
                Cardinality({j \in (i + 1)..(NextAi(msgs, i) - 1) :
                               /\ msgs[j].role = "tool"
                               /\ msgs[j].tool_call_id = msgs[i].tool_calls[k].id})
                  = 1
    /\ \A i \in 1..Len(msgs) :
         msgs[i].role = "tool"
           => /\ PrevAi(msgs, i) # 0
              /\ msgs[i].tool_call_id \in CallIds(msgs[PrevAi(msgs, i)])

\* C3: in every message history of a thread, every ai message that carries
\* tool calls is followed by exactly one tool message per call before the
\* next ai message, and every tool message answers a call of the preceding
\* ai message.
C3_ToolCallPairing ==
    \A t \in Threads : ToolCallPairing(store[t].messages)

\* ------------------------------------------------------------------------
\* C4
\* ------------------------------------------------------------------------

\* C4: whenever the router returns tools, the last message is an ai message
\* with a non-empty tool-call list, and the tool step that follows appends
\* exactly one tool message per call, in call order, each with the id of its
\* call.
C4_ToolMessagesMatchCalls ==
    /\ \A r \in Runs :
         (run[r].pc = "tools" \/ (run[r].route = "tools" /\ last.op = "route"
                                   /\ last.r = r))
           => /\ run[r].route = "tools"
              /\ IsAiWithCalls(Last(run[r].st.messages))
    /\ last.op = "tools"
         => LET calls == Last(last.before.st.messages).tool_calls
            IN  /\ last.before.route = "tools"
                /\ IsAiWithCalls(Last(last.before.st.messages))
                /\ run[last.r].st.messages = last.before.st.messages \o Appended
                /\ Len(Appended) = Len(calls)
                /\ \A i \in 1..Len(calls) :
                     /\ Appended[i].role = "tool"
                     /\ Appended[i].tool_call_id = calls[i].id

\* a tool step has just answered an ai message with two tool calls
C4_Witness ==
    /\ last.op = "tools"
    /\ Len(Last(last.before.st.messages).tool_calls) = 2
    /\ Len(Appended) = 2

\* ------------------------------------------------------------------------
\* C5
\* ------------------------------------------------------------------------

\* C5: when the retrieval call of a tool call throws, the tool step does not
\* fail: it appends exactly one tool message for that call, with status error
\* and a non-empty message, and the run goes on to a further agent step.
C5_RetrievalErrorBecomesMessage ==
    last.op = "tools"
      => LET calls == Last(last.before.st.messages).tool_calls
         IN  \A i \in 1..Len(calls) :
               (calls[i].name \in ragTools /\ last.outs[i].kind = "throw")
                 => /\ Cardinality({j \in 1..Len(Appended) :
                                      /\ Appended[j].role = "tool"
                                      /\ Appended[j].tool_call_id = calls[i].id})
                         = 1
                    /\ Len(Appended) >= i
                    /\ Appended[i].tool_call_id = calls[i].id
                    /\ Appended[i].payload.status = "error"
                    /\ Appended[i].payload.message # ""
                    /\ run[last.r].pc = "agent"
                    /\ run[last.r].toolSteps = last.before.toolSteps + 1
                    /\ ENABLED AgentStep(last.r)

\* a tool step has just completed in which a retrieval call threw an error
\* with an empty message
C5_Witness ==
    /\ last.op = "tools"
    /\ \E i \in 1..Len(last.outs) :
         /\ last.outs[i].kind = "throw"
         /\ last.outs[i].error = ""
         /\ Appended[i].payload.status = "error"
    /\ run[last.r].pc = "agent"

\* ------------------------------------------------------------------------
\* C6
\* ------------------------------------------------------------------------

\* C6: when the model call fails during an agent step, the failure leaves
\* agentNode and invokeAgent: the run is aborted, no ai message is appended,
\* iterations is not incremented, no further step runs in that invocation and
\* no answer is returned.
C6_ModelFailurePropagates ==
    /\ last.op = "agent_fail"
         => /\ last.before.pc = "agent"
            /\ run[last.r].pc = "FAILED"
            /\ run[last.r].st = last.before.st
            /\ run[last.r].agentSteps = last.before.agentSteps
    /\ \A r \in Runs :
         run[r].pc = "FAILED"
           => /\ run[r].result = ""
              /\ ~ENABLED AgentStep(r)
              /\ ~ENABLED Route(r)
              /\ ~ENABLED ToolStep(r)
              /\ ~ENABLED Return(r)

\* the model call failed in an agent step that followed a tool step
C6_Witness ==
    /\ last.op = "agent_fail"
    /\ run[last.r].pc = "FAILED"
    /\ last.before.toolSteps >= 1

\* ------------------------------------------------------------------------
\* C7
\* ------------------------------------------------------------------------

\* C7: if a step fails before it completes, nothing of it is committed: the
\* checkpoint of the thread after the failure equals the one just before the
\* step started (messages, iterations, currentStep), and the checkpoint is
\* written only when a step has completed.
C7_NoPartialCommit ==
    /\ last.op = "agent_fail"
         => /\ store[run[last.r].thread] = last.stored
            /\ store[run[last.r].thread] = last.before.st
    /\ last.op \in {"route", "return", "agent_fail"}
         => store[run[last.r].thread] = last.stored
    /\ \A r \in Runs :
         run[r].pc \in {"agent", "route", "tools", "__end__", "RETURNED", "FAILED"}
           => \/ store[run[r].thread] = run[r].st
              \/ \E r2 \in Runs : r2 # r /\ run[r2].thread = run[r].thread

\* the model call failed in the second agent step or later of a run
C7_Witness ==
    /\ last.op = "agent_fail"
    /\ last.before.agentSteps >= 1
    /\ store[run[last.r].thread].iterations >= 1

\* ------------------------------------------------------------------------
\* C8
\* ------------------------------------------------------------------------

\* the node sequences START -> agent (-> tools -> agent)* [-> __end__]
LegalTrace(tr) ==
    /\ Len(tr) >= 1
    /\ tr[1] = "agent"
    /\ \A i \in 1..Len(tr) :
         /\ tr[i] \in {"agent", "tools", "__end__"}
         /\ tr[i] = "tools" => (i < Len(tr) => tr[i + 1] = "agent")
         /\ tr[i] = "agent" => (i < Len(tr) => tr[i + 1] \in {"tools", "__end__"})
         /\ tr[i] = "__end__" => i = Len(tr)
         /\ (i > 1 /\ tr[i] \in {"tools", "__end__"}) => tr[i - 1] = "agent"
         /\ (i > 1 /\ tr[i] = "agent") => tr[i - 1] = "tools"

\* C8: every run follows only START -> AGENT, AGENT -> TOOLS or AGENT -> END
\* as the router decides, and TOOLS -> AGENT: it starts with an agent step,
\* every tool step is followed at once by an agent step with no routing
\* decision in between, END is reached only from AGENT, and after END no
\* agent step or tool step happens in the run.
C8_OnlyGraphTransitions ==
    /\ \A r \in Runs :
         run[r].pc # "IDLE"
           => /\ LegalTrace(run[r].trace)
              /\ run[r].toolSteps <= run[r].agentSteps
              /\ run[r].pc \in {"__end__", "RETURNED"}
                   => /\ Last(run[r].trace) = "__end__"
                      /\ ~ENABLED AgentStep(r)
                      /\ ~ENABLED ToolStep(r)
    /\ last.op = "invoke" => run[last.r].pc = "agent"
    /\ last.op = "tools"
         => /\ run[last.r].pc = "agent"
            /\ run[last.r].route = last.before.route
    /\ last.op = "route"
         => /\ last.before.pc = "route"
            /\ run[last.r].pc = IF run[last.r].route = "tools"
                                THEN "tools" ELSE "__end__"
    /\ last.op = "return" => last.before.pc = "__end__"

\* a run reached END after two tool steps
C8_Witness ==
    \E r \in Runs :
      /\ run[r].pc = "__end__"
      /\ run[r].trace = <<"agent", "tools", "agent", "tools", "agent", "__end__">>

\* ------------------------------------------------------------------------
\* C9
\* ------------------------------------------------------------------------

\* C9: when a thread is resumed with a new query, the run starts from the
\* latest checkpoint of the thread with the new human message after all prior
\* messages, and iterations is carried over: from a checkpoint with
\* iterations = n the first agent step of the run produces n + 1.
C9_ResumeCarriesIterations ==
    /\ (last.op = "invoke" /\ ~run[last.r].isNew)
         => /\ run[last.r].loaded = last.stored
            /\ run[last.r].st.messages
                 = last.stored.messages \o <<HumanMessage(run[last.r].query)>>
            /\ run[last.r].st.iterations = last.stored.iterations
            /\ run[last.r].st.currentStep = last.stored.currentStep
    /\ (last.op = "agent" /\ last.before.agentSteps = 0)
         => run[last.r].st.iterations = run[last.r].loaded.iterations + 1

\* the first agent step of a run resumed from iterations = 4 has completed
C9_Witness ==
    /\ last.op = "agent"
    /\ last.before.agentSteps = 0
    /\ ~run[last.r].isNew
    /\ run[last.r].loaded.iterations = 4
    /\ run[last.r].st.iterations = 5

\* ------------------------------------------------------------------------
\* C10
\* ------------------------------------------------------------------------

\* every ai message of the history requests tool calls
AlwaysRequestsTools(msgs) ==
    \A i \in 1..Len(msgs) : msgs[i].role = "ai" => IsAiWithCalls(msgs[i])

\* C10: on a new thread, if the model requests tool calls in every agent
\* step, the run performs exactly 10 agent steps and 9 tool steps: after the
\* 10th agent step the router returns end and the tool calls of the 10th ai
\* message are never executed.
C10_TenAgentNineToolSteps ==
    \A r \in Runs :
      (run[r].isNew /\ AlwaysRequestsTools(run[r].st.messages))
        => /\ run[r].agentSteps <= 10
           /\ run[r].toolSteps <= 9
           /\ run[r].agentSteps = 10 => run[r].pc \in {"route", "__end__", "RETURNED"}
           /\ run[r].pc \in {"__end__", "RETURNED"}
                => /\ run[r].agentSteps = 10
                   /\ run[r].toolSteps = 9
                   /\ run[r].route = "__end__"
                   /\ IsAiWithCalls(Last(run[r].st.messages))
                   /\ store[run[r].thread].messages = run[r].st.messages

\* a run on a new thread returned after the model asked for tools every time
C10_Witness ==
    \E r \in Runs :
      /\ run[r].pc = "RETURNED"
      /\ run[r].isNew
      /\ AlwaysRequestsTools(run[r].st.messages)
      /\ run[r].agentSteps = 10
      /\ run[r].toolSteps = 9

\* ------------------------------------------------------------------------
\* C11
\* ------------------------------------------------------------------------

\* C11: whenever a run reaches END, the last message of the state is the ai
\* message of the last agent step of the run, and invokeAgent returns the
\* text of that message; also when END was forced by the iteration cap while
\* the message still requests tool calls: invokeAgent then returns normally.
C11_ReturnsLastAiText ==
    /\ (last.op = "route" /\ run[last.r].pc = "__end__")
         => /\ last.before.pc = "route"
            /\ run[last.r].st = last.before.st
    /\ last.op = "agent"
         => /\ Last(run[last.r].st.messages).role = "ai"
            /\ Len(run[last.r].st.messages)
                 = Len(last.before.st.messages) + 1
    /\ \A r \in Runs :
         /\ run[r].pc \in {"__end__", "RETURNED"}
              => /\ Last(run[r].st.messages).role = "ai"
                 /\ run[r].agentSteps >= 1
         /\ run[r].pc = "__end__" => ENABLED Return(r)
         /\ run[r].pc = "RETURNED"
              => run[r].result = Last(run[r].st.messages).text

\* invokeAgent returned the text of an ai message that still requests tools,
\* after the cap forced END
C11_Witness ==
    \E r \in Runs :
      /\ run[r].pc = "RETURNED"
      /\ run[r].st.iterations >= 10
      /\ IsAiWithCalls(Last(run[r].st.messages))
      /\ run[r].result = "thinking"

\* ------------------------------------------------------------------------
\* C12
\* ------------------------------------------------------------------------

\* C12: every successful agent step appends exactly one message, the ai
\* message of the model, after all existing messages, sets currentStep to
\* "agent" and iterations to the previous value plus 1; it changes no
\* existing message and leaves the error field unchanged.
C12_AgentStepUpdate ==
    last.op = "agent"
      => LET b == last.before.st
             a == run[last.r].st
         IN  /\ Len(a.messages) = Len(b.messages) + 1
             /\ SubSeq(a.messages, 1, Len(b.messages)) = b.messages
             /\ Last(a.messages).role = "ai"
             /\ a.currentStep = "agent"
             /\ a.iterations = b.iterations + 1
             /\ a.error = b.error

\* an agent step has completed on a history that already held ai and tool
\* messages
C12_Witness ==
    /\ last.op = "agent"
    /\ Len(last.before.st.messages) >= 3
    /\ run[last.r].st.iterations = last.before.st.iterations + 1

\* ------------------------------------------------------------------------
\* C14
\* ------------------------------------------------------------------------

IsPrefix(p, s) == Len(p) <= Len(s) /\ SubSeq(s, 1, Len(p)) = p

\* C14: the message history of a thread is append-only: after every state
\* update (new human message, agent step, tool step) the previous history is
\* a prefix of the new one, the new messages follow in emission order, and no
\* existing message is removed, replaced, duplicated or reordered.
C14_AppendOnlyHistory ==
    /\ last.op = "invoke"
         => /\ run[last.r].st.messages
                 = last.stored.messages \o <<HumanMessage(run[last.r].query)>>
            /\ store[run[last.r].thread].messages = run[last.r].st.messages
    /\ last.op \in {"agent", "tools"}
         => /\ IsPrefix(last.before.st.messages, run[last.r].st.messages)
            /\ IsPrefix(last.stored.messages, store[run[last.r].thread].messages)
            /\ store[run[last.r].thread].messages = run[last.r].st.messages
    /\ last.op = "agent"
         => /\ Len(Appended) = 1
            /\ Appended[1].role = "ai"
    /\ last.op = "tools"
         => LET calls == Last(last.before.st.messages).tool_calls
            IN  /\ Len(Appended) = Len(calls)
                /\ \A i \in 1..Len(calls) :
                     Appended[i].tool_call_id = calls[i].id
    /\ last.op \in {"route", "return", "agent_fail"}
         => store[run[last.r].thread].messages = last.stored.messages

\* a human message was appended to a history that ends with the messages of
\* an earlier run
C14_Witness ==
    /\ last.op = "invoke"
    /\ Len(last.stored.messages) >= 4
    /\ Len(run[last.r].st.messages) = Len(last.stored.messages) + 1

\* ------------------------------------------------------------------------
\* C15
\* ------------------------------------------------------------------------

\* the number of agent steps completed on a history: each appends one ai
\* message, and nothing else does
NumAi(msgs) == Cardinality({i \in 1..Len(msgs) : msgs[i].role = "ai"})

\* C15: for every thread, iterations equals the number of agent steps
\* completed on the thread since it was created; it never decreases from one
\* persisted state to the next, within a run and across resumed runs, and it
\* is 0 only before the first agent step of a new thread.
C15_IterationsCountAgentSteps ==
    /\ \A t \in Threads : store[t].iterations = NumAi(store[t].messages)
    /\ \A r \in Runs :
         /\ run[r].st.iterations = NumAi(run[r].st.messages)
         /\ run[r].pc # "IDLE"
              => run[r].st.iterations
                   = run[r].loaded.iterations + run[r].agentSteps
    /\ last.op \in {"invoke", "agent", "agent_fail", "route", "tools", "return"}
         => store[run[last.r].thread].iterations >= last.stored.iterations
    /\ \A t \in Threads :
         store[t].iterations = 0
           => /\ NumAi(store[t].messages) = 0
              /\ \A r \in Runs :
                   run[r].thread = t
                     => (run[r].agentSteps = 0 /\ run[r].loaded.iterations = 0)

\* a resumed run has completed agent steps on a thread that had some before
C15_Witness ==
    \E r \in Runs :
      /\ run[r].pc = "RETURNED"
      /\ ~run[r].isNew
      /\ run[r].loaded.iterations >= 2
      /\ run[r].agentSteps >= 2
      /\ store[run[r].thread].iterations
           = run[r].loaded.iterations + run[r].agentSteps

\* ------------------------------------------------------------------------
\* C17
\* ------------------------------------------------------------------------

\* C17: after every completed tool step the state has currentStep = "tools",
\* so at every persisted state currentStep names the step that completed last
\* ("agent" after an agent step, "tools" after a tool step).
C17_CurrentStepNamesLastStep ==
    /\ last.op = "tools"
         => /\ run[last.r].st.currentStep = "tools"
            /\ store[run[last.r].thread].currentStep = "tools"
    /\ last.op = "agent"
         => /\ run[last.r].st.currentStep = "agent"
            /\ store[run[last.r].thread].currentStep = "agent"

\* ------------------------------------------------------------------------
\* C20
\* ------------------------------------------------------------------------

\* C20: after a run on thread T reaches END, getThreadState(T) returns the
\* messages, iterations and currentStep of the final state of the run, and
\* the next run on T starts from exactly that state with only the new human
\* message added.
C20_CheckpointRoundTrip ==
    /\ \A r \in Runs :
         run[r].pc \in {"__end__", "RETURNED"}
           => /\ getThreadState(run[r].thread).messages = run[r].st.messages
              /\ getThreadState(run[r].thread).iterations = run[r].st.iterations
              /\ getThreadState(run[r].thread).currentStep = run[r].st.currentStep
    /\ (last.op = "invoke" /\ last.before.pc = "RETURNED"
          /\ last.before.thread = run[last.r].thread)
         => /\ run[last.r].loaded = last.before.st
            /\ run[last.r].st.messages
                 = last.before.st.messages \o <<HumanMessage(run[last.r].query)>>
            /\ run[last.r].st.iterations = last.before.st.iterations
            /\ run[last.r].st.currentStep = last.before.st.currentStep
            /\ run[last.r].st.error = last.before.st.error

\* a run was started on the thread of the run that returned before it
C20_Witness ==
    /\ last.op = "invoke"
    /\ last.before.pc = "RETURNED"
    /\ last.before.thread = run[last.r].thread
    /\ last.before.toolSteps >= 1
    /\ run[last.r].st.iterations >= 2

\* ------------------------------------------------------------------------
\* C13
\* ------------------------------------------------------------------------

\* C13: in every agent step the model is called with the fixed system
\* instruction as the first message followed by the full current history in
\* order, and the system instruction is never stored: no message of role
\* system is in the state or in a checkpoint of a thread.
C13_SystemPromptNotStored ==
    /\ last.op \in {"agent", "agent_fail"}
         => /\ Len(last.input) = Len(last.before.st.messages) + 1
            /\ last.input[1].role = "system"
            /\ last.input[1].text = "SYSTEM_PROMPT"
            /\ Tail(last.input) = last.before.st.messages
    /\ \A s \in KnownStates :
         \A i \in 1..Len(s.messages) : s.messages[i].role # "system"

\* the model was called in a resumed run on a history with earlier answers
C13_Witness ==
    /\ last.op = "agent"
    /\ ~run[last.r].isNew
    /\ Len(last.input) >= 5
    /\ last.input[1].role = "system"
    /\ Len(store[run[last.r].thread].messages) = Len(last.input)

\* ------------------------------------------------------------------------
\* C16
\* ------------------------------------------------------------------------

\* the positions of the results with a non-empty text
Usable(texts) == {j \in 1..Len(texts) : texts[j] # ""}

\* the position of the i-th result with a non-empty text
NthUsable(texts, i) ==
    CHOOSE j \in Usable(texts) :
      Cardinality({j2 \in Usable(texts) : j2 <= j}) = i

\* C16: for every retrieval outcome the tool returns exactly one payload:
\* status success with chunks of ranks 1..k in retrieval order (k the number
\* of returned chunks with non-empty text, totalResults = k) when k >= 1;
\* status no_results when the retrieval returned no chunk or only chunks with
\* empty or missing text; status error with a message when the call throws.
\* A success payload never has an empty chunk list.
C16_RetrievalPayload ==
    last.op = "kb"
      => LET out == last.outs[1]
             p == last.input[2].payload
             k == Cardinality(Usable(out.texts))
         IN  /\ Len(last.input) = 2
             /\ last.input[2].role = "tool"
             /\ p.status \in {"success", "no_results", "error"}
             /\ out.kind = "throw"
                  => /\ p.status = "error"
                     /\ p.message # ""
             /\ (out.kind = "ok" /\ k = 0) => p.status = "no_results"
             /\ (out.kind = "ok" /\ k >= 1)
                  => /\ p.status = "success"
                     /\ p.totalResults = k
                     /\ Len(p.chunks) = k
                     /\ \A i \in 1..k :
                          /\ p.chunks[i].rank = i
                          /\ p.chunks[i].text = out.texts[NthUsable(out.texts, i)]
             /\ p.status = "success" => Len(p.chunks) >= 1

\* the tool returned two ranked chunks for a retrieval whose first and third
\* results had no text
C16_Witness ==
    /\ last.op = "kb"
    /\ last.outs[1].texts = <<"", "a", "", "b">>
    /\ last.input[2].payload.status = "success"
    /\ last.input[2].payload.totalResults = 2
    /\ last.input[2].payload.chunks[2] = [rank |-> 2, text |-> "b"]

\* ------------------------------------------------------------------------
\* C19
\* ------------------------------------------------------------------------

InvokeAny == \E r \in Runs, t \in Threads, q \in Queries : Invoke(r, t, q)

\* C19: when the configured checkpoint store cannot be provided
\* (checkpointerType postgres or redis), every invocation (invokeAgent,
\* streamAgent, streamAgentEvents, continueConversation, getThreadState) fails
\* with an error before any agent step runs, on the first call and on every
\* later call, and no run ever proceeds with an in-memory store in its place.
C19_NoFallbackCheckpointer ==
    /\ env.checkpointerType \in {"postgres", "redis"}
         => /\ env.agent = "null"
            /\ getAgent(env) = "throw"
            /\ \A r \in Runs : run[r] = IdleRun
            /\ \A t \in Threads : store[t] = DefaultState
            /\ created = {}
            /\ ~ENABLED InvokeAny
            /\ invoked < MaxInvocations
                 => \A entry \in EntryPoints : ENABLED EntryFails(entry)
            /\ invoked > 0 => last.op \in {"unavailable", "chat_rejected"}
    /\ last.op = "unavailable"
         => env.checkpointerType \in {"postgres", "redis"}
    /\ (\E r \in Runs : run[r].pc # "IDLE")
         => /\ env.checkpointerType = "memory"
            /\ env.agent = "MemorySaver"

\* with redis configured, a second call has failed like the first
C19_Witness ==
    /\ env.checkpointerType = "redis"
    /\ invoked = 2
    /\ last.op = "unavailable"
    /\ last.input = <<"continueConversation">>
    /\ env.agent = "null"

\* ------------------------------------------------------------------------
\* C18
\* ------------------------------------------------------------------------

\* C18: a query that is empty (or not a string) is rejected before the loop
\* starts: no run is ever started for it, no agent step runs, the model is
\* never called with it, and no thread state holds it; a request the chat
\* handler rejected has started nothing.
C18_EmptyQueryRejected ==
    /\ \A r \in Runs : run[r].pc # "IDLE" => run[r].query # ""
    /\ \A t \in Threads : \A i \in 1..Len(store[t].messages) :
         store[t].messages[i].role = "human" => store[t].messages[i].text # ""
    /\ last.op \in {"agent", "agent_fail"}
         => \A i \in 1..Len(last.input) :
              last.input[i].role = "human" => last.input[i].text # ""
    /\ last.op = "chat_rejected" => ~ValidMessage(last.input[1])

\* ------------------------------------------------------------------------
\* C24
\* ------------------------------------------------------------------------

\* what the router looks at: the counter and the last message, if any
RouterView(state) ==
    [iterations |-> state.iterations,
     lastMessage |-> IF Len(state.messages) = 0 THEN <<>>
                     ELSE <<Last(state.messages)>>]

\* C24: routeAgentResponse is a pure function of the state: its decision
\* depends only on iterations and the last message (two states that agree on
\* these get the same decision), a second call on the state the first call
\* left gives the same decision, and the call leaves messages, iterations,
\* currentStep and error, in the run and in the checkpoint, unchanged.
C24_RouterPure ==
    /\ \A s1, s2 \in KnownStates :
         RouterView(s1) = RouterView(s2)
           => routeAgentResponse(s1) = routeAgentResponse(s2)
    /\ last.op = "route"
         => /\ run[last.r].st = last.before.st
            /\ store[run[last.r].thread] = last.stored
            /\ run[last.r].route = routeAgentResponse(last.before.st)
            /\ routeAgentResponse(run[last.r].st) = run[last.r].route

\* the router has decided "tools" on a state that shares its counter and last
\* message with no other part of its history
C24_Witness ==
    /\ last.op = "route"
    /\ run[last.r].route = "tools"
    /\ Len(run[last.r].st.messages) >= 4
    /\ run[last.r].st.currentStep = "agent"

\* ------------------------------------------------------------------------
\* C25
\* ------------------------------------------------------------------------

\* C25: no capability call is retried. An agent step that completes has made
\* one model call and adds its one response; a model call that fails ends the
\* invocation, which makes no further model call; a tool step issues one
\* retrieval per call of a registered tool, and the outcome of that one
\* retrieval, a failure included, is what the tool message of the call
\* reports.
C25_NoRetry ==
    /\ last.op = "agent"
         => /\ run[last.r].agentSteps = last.before.agentSteps + 1
            /\ Len(Appended) = 1
    /\ last.op = "agent_fail"
         => /\ run[last.r].pc = "FAILED"
            /\ run[last.r].agentSteps = last.before.agentSteps
            /\ run[last.r].st = last.before.st
    /\ \A r \in Runs :
         run[r].pc = "FAILED"
           => /\ ~ENABLED AgentStep(r)
              /\ ~ENABLED AgentFail(r)
              /\ ~ENABLED ToolStep(r)
    /\ last.op = "tools"
         => LET calls == Last(last.before.st.messages).tool_calls
            IN  /\ Len(last.outs) = Len(calls)
                /\ Len(Appended) = Len(calls)
                /\ \A i \in 1..Len(calls) :
                     (calls[i].name \in ragTools /\ last.outs[i].kind = "throw")
                       => /\ Appended[i].payload.status = "error"
                          /\ Appended[i].tool_call_id = calls[i].id

\* the model call of a second agent step failed after a tool step, and the
\* invocation has ended with the one completed agent step
C25_Witness ==
    /\ last.op = "agent_fail"
    /\ run[last.r].pc = "FAILED"
    /\ run[last.r].agentSteps = 1
    /\ run[last.r].toolSteps = 1

\* ------------------------------------------------------------------------
\* C26
\* ------------------------------------------------------------------------

\* the one command the tool sent for the call of last.input[1]
SentCommand == last.request[1][1]

AnsweredCalls == Last(last.before.st.messages).tool_calls

Max(a, b) == IF a >= b THEN a ELSE b

\* the bounds on the steps of a run that started with loaded.iterations = i
StepBounds ==
    \A r \in Runs :
        LET i == run[r].loaded.iterations
        IN  /\ run[r].agentSteps <= Max(1, MaxIterations - i)
            /\ run[r].toolSteps <= Max(0, (MaxIterations - 1) - i)
            /\ run[r].pc \in {"__end__", "RETURNED"} => run[r].agentSteps >= 1

C28_DefaultProviderAnthropic ==
    (last.op \in ConfigFunctions /\ last.input[1].LLM_PROVIDER = NotSet)
      => /\ last.input[2].llmProvider = "anthropic"
         /\ (last.op = "validateLlmConfig"
               /\ last.input[1].ANTHROPIC_API_KEY \in {NotSet, ""})
              => last.outs[1] # "ok"
         /\ last.op = "getLLM" => last.outs[1] = "ChatAnthropic"

\* ------------------------------------------------------------------------
\* C30
\* ------------------------------------------------------------------------

IsCall(e) == e.kind = "call"

IsSleep(e) == e.kind = "sleep"

\* the calls of fn that succeed, by their position
Successes(outcomes) == {k \in 1..Len(outcomes) : outcomes[k].kind = "ok"}

Min(S) == CHOOSE x \in S : \A y \in S : x <= y

\* C30: withRetry(fn, maxRetries, initialDelay) calls fn sequentially at most
\* maxRetries + 1 times: it returns the result of the first call that succeeds
\* and makes no call after it; if all maxRetries + 1 calls fail it throws the
\* error of the last call (that error itself when it is an Error, else an
\* Error with its text); after failed attempt k (0-based, k < maxRetries) it
\* waits initialDelay * 2^k before the next call, and it does not wait after
\* the final failed attempt.
C30_WithRetry ==
    last.op = "withRetry"
      => LET outcomes == last.outs
             maxRetries == last.input[1]
             initialDelay == last.input[2]
             trace == last.request
             calls == SelectSeq(trace, IsCall)
             sleeps == SelectSeq(trace, IsSleep)
             end == Last(trace)
         IN  /\ Len(calls) <= maxRetries + 1
             /\ \A i \in 1..Len(calls) :
                  /\ calls[i].attempt = i - 1
                  /\ calls[i].value = outcomes[i]
             /\ \A i \in 1..(Len(trace) - 1) :
                  trace[i].kind \in {"call", "sleep"}
             /\ Successes(outcomes) # {}
                  => /\ Len(calls) = Min(Successes(outcomes))
                     /\ end.kind = "return"
                     /\ end.value = outcomes[Min(Successes(outcomes))]
                     /\ trace[Len(trace) - 1] = Last(calls)
             /\ Successes(outcomes) = {}
                  => /\ Len(calls) = maxRetries + 1
                     /\ end.kind = "throw"
                     /\ end.value.isError
                     /\ end.value.message = outcomes[maxRetries + 1].message
                     /\ outcomes[maxRetries + 1].isError
                          => end.value = outcomes[maxRetries + 1]
                     /\ trace[Len(trace) - 1] = Last(calls)
             /\ \A i \in 1..(Len(trace) - 1) :
                  (trace[i].kind = "call" /\ trace[i].value.kind = "fail"
                     /\ trace[i].attempt < maxRetries)
                    => /\ trace[i + 1].kind = "sleep"
                       /\ trace[i + 1].delay
                            = initialDelay * (2 ^ trace[i].attempt)
                       /\ trace[i + 2].kind = "call"
             /\ \A i \in 1..Len(trace) :
                  trace[i].kind = "sleep"
                    => /\ i > 1
                       /\ trace[i - 1].kind = "call"
                       /\ trace[i - 1].value.kind = "fail"
                       /\ trace[i - 1].attempt < maxRetries
             /\ Len(sleeps) <= maxRetries

\* with maxRetries = 3 and initialDelay = 1000 the first three calls failed
\* and the fourth succeeded after waits of 1000, 2000 and 4000
C30_Witness ==
    /\ last.op = "withRetry"
    /\ last.input = <<3, 1000>>
    /\ Len(last.request) = 8
    /\ last.request[2].delay = 1000
    /\ last.request[4].delay = 2000
    /\ last.request[6].delay = 4000
    /\ last.request[8].kind = "return"

\* ------------------------------------------------------------------------
\* C23
\* ------------------------------------------------------------------------

\* the runs made with streamAgent
Streams == {r \in Runs : run[r].mode = "stream" /\ run[r].pc # "IDLE"}

\* each chunk extends the one before it: the history grows, the counter does
\* not go back
Extending(yields) ==
    \A i \in 1..(Len(yields) - 1) :
        /\ IsPrefix(yields[i].messages, yields[i + 1].messages)
        /\ Len(yields[i + 1].messages) > Len(yields[i].messages)
        /\ yields[i + 1].iterations >= yields[i].iterations

\* the transitions are those of the graph, each step applying the update of
\* its node as it does under invokeAgent
SameTransitions ==
    /\ \A r \in Streams : LegalTrace(run[r].trace)
    /\ (last.op = "agent" /\ run[last.r].mode = "stream")
         => run[last.r].st
              = ApplyUpdate(last.before.st,
                            agentNode(last.before.st, Last(run[last.r].st.messages)))
    /\ (last.op = "tools" /\ run[last.r].mode = "stream")
         => run[last.r].st
              = ApplyUpdate(last.before.st, toolNode(last.before.st, last.outs))
    /\ (last.op = "route" /\ run[last.r].mode = "stream")
         => run[last.r].route = routeAgentResponse(last.before.st)

\* C23 as stated: streamAgent performs the same node transitions as
\* invokeAgent and yields a finite sequence of snapshots of the state: one per
\* completed node transition, in order, each extending the previous one,
\* ending when the loop reaches END with the last snapshot equal to the final
\* state.
C23_OneSnapshotPerTransition ==
    /\ SameTransitions
    /\ \A r \in Streams :
         /\ Len(run[r].yields) = run[r].agentSteps + run[r].toolSteps
         /\ Extending(run[r].yields)
         /\ run[r].pc \in {"__end__", "RETURNED"}
              => Last(run[r].yields) = run[r].st

\* C23, amended: streamAgent performs the same node transitions as
\* invokeAgent and yields a finite sequence of snapshots of the state: first
\* the state with the input applied (the loaded history and the new human
\* message), then one per completed node transition, in order, each extending
\* the previous one, ending when the loop reaches END with the last snapshot
\* equal to the final state.
C23_InputThenOnePerTransition ==
    /\ SameTransitions
    /\ \A r \in Streams :
         /\ Len(run[r].yields) = 1 + run[r].agentSteps + run[r].toolSteps
         /\ Len(run[r].yields) <= 2 * MaxIterations
         /\ run[r].yields[1] = InputState(run[r].loaded, run[r].query)
         /\ Extending(run[r].yields)
         /\ Last(run[r].yields) = run[r].st
         /\ run[r].pc \in {"__end__", "RETURNED"}
              => /\ Last(run[r].yields) = store[run[r].thread]
                 /\ run[r].route = "__end__"

\* a stream on a resumed thread is done after an agent, a tool and an agent
\* step, with four snapshots
C23_Witness ==
    \E r \in Streams :
        /\ run[r].pc = "RETURNED"
        /\ ~run[r].isNew
        /\ run[r].trace = <<"agent", "tools", "agent", "__end__">>
        /\ Len(run[r].yields) = 4
        /\ Len(run[r].yields[1].messages) > 1

\* ------------------------------------------------------------------------
\* C21
\* ------------------------------------------------------------------------

\* the messages a run has added to the history it loaded: its human message
\* and the ai and tool messages of its steps
Added(r) ==
    SubSeq(run[r].st.messages, Len(run[r].loaded.messages) + 1,
           Len(run[r].st.messages))

Holds(msgs, m) == \E j \in 1..Len(msgs) : msgs[j] = m

\* C21: for every interleaving of invocations issued with the same thread id,
\* no two steps of that thread are in progress at the same time, and no
\* committed write is lost: when all of them have completed, the persisted
\* history of the thread contains the human message and the ai and tool
\* messages of every one of them.
C21_SameThreadSerialized ==
    /\ \A r1, r2 \in Runs :
         (r1 # r2 /\ ~Free(r1) /\ ~Free(r2))
           => run[r1].thread # run[r2].thread
    /\ (\A r \in Runs : run[r].pc = "RETURNED")
         => \A r \in Runs : \A i \in 1..Len(Added(r)) :
              Holds(store[run[r].thread].messages, Added(r)[i])

\* ------------------------------------------------------------------------
\* C22
\* ------------------------------------------------------------------------

\* the state a run reaches from `st` by the steps that produced `msgs`, with
\* nothing else going on
RECURSIVE Replay(_, _)
Replay(st, msgs) ==
    IF msgs = <<>> THEN st
    ELSE LET m == Head(msgs)
         IN  Replay(IF m.role = "ai"
                    THEN ApplyUpdate(st, agentNode(st, m))
                    ELSE ApplyUpdate(st, [messages |-> <<m>>]),
                    Tail(msgs))

\* the run in slot r has its thread to itself
OwnThread(r) ==
    /\ run[r].pc # "IDLE"
    /\ \A r2 \in Runs \ {r} : run[r2].thread # run[r].thread

\* C22: runs on different thread ids are independent under every
\* interleaving: a step of a run on thread A leaves what is persisted for any
\* other thread unchanged, a run reads only the checkpoint of its own thread,
\* and the state of a thread used by one run is the state that run reaches
\* alone from its input with the same capability responses.
C22_ThreadsIndependent ==
    /\ last.op \in {"invoke", "agent", "agent_fail", "route", "tools", "return"}
         => \A t \in Threads \ {run[last.r].thread} :
              store[t] = last.storeBefore[t]
    /\ last.op = "invoke"
         => /\ run[last.r].loaded = last.storeBefore[run[last.r].thread]
            /\ run[last.r].st = InputState(run[last.r].loaded, run[last.r].query)
    /\ \A r \in Runs :
         OwnThread(r)
           => /\ run[r].loaded = DefaultState
              /\ store[run[r].thread] = run[r].st
              /\ run[r].st
                   = Replay(InputState(DefaultState, run[r].query),
                            Tail(Added(r)))

\* both runs are at their tool node at once, each on its own thread
C22_Witness ==
    /\ run[1].pc = "tools"
    /\ run[2].pc = "tools"
    /\ run[1].thread # run[2].thread
    /\ store[run[1].thread].messages[1].text = "q1"
    /\ store[run[2].thread].messages[1].text = "q2"

\* ------------------------------------------------------------------------
\* C34
\* ------------------------------------------------------------------------

\* the run in slot r holds the payload of a retrieval that failed
HasFailedRetrieval(r) ==
    \E i \in 1..Len(run[r].st.messages) :
       /\ run[r].st.messages[i].role = "tool"
       /\ run[r].st.messages[i].payload.status = "error"

\* the run in slot r was ended by the iteration guard with tool calls pending
CapForcedEnd(r) ==
    /\ run[r].route = "__end__"
    /\ run[r].st.iterations >= MaxIterations
    /\ IsAiWithCalls(Last(run[r].st.messages))

CappedRun(r) ==
    /\ run[r].pc # "IDLE"
    /\ run[r].loaded.iterations >= MaxIterations

OptionCall ==
    /\ last.op = "invoke"
    /\ Len(last.input) = 3
    /\ last.input[1] \in OptionEntries

\* C32: for every call of invokeAgent, streamAgent or streamAgentEvents with
\* thread id T and any optional caller config, the run loads and writes the
\* checkpoint of thread T: the config of the caller never replaces the thread
\* id the run uses.
C32_RunUsesRequestedThread ==
    OptionCall
      => LET T == last.input[2]
         IN  /\ run[last.r].thread = T
             /\ run[last.r].loaded = last.storeBefore[T]
             /\ store[T] = run[last.r].st

\* ------------------------------------------------------------------------
\* C33
\* ------------------------------------------------------------------------

\* the last step was a call of `entry` without a config that started a run
BareCall(entry) ==
    /\ last.op = "invoke"
    /\ Len(last.input) = 3
    /\ last.input[1] = entry
    /\ last.input[3] = Undefined

\* the run that agent.invoke starts on thread T for query q from the
\* checkpoints in `before`
StartedRun(before, T, q) ==
    [IdleRun EXCEPT !.pc = "agent", !.thread = T, !.query = q,
                    !.isNew = (before[T] = DefaultState),
                    !.st = InputState(before[T], q), !.loaded = before[T],
                    !.trace = <<"agent">>]

\* C33: continueConversation(T, q) is equivalent to
\* invokeAgent({query: q, threadId: T}): each can be called exactly when
\* the other can; from the same checkpoint of T either one starts the same
\* run (same loaded state, same input state, same first node) and saves the
\* same checkpoint, touching no other thread; the steps that follow are the
\* graph's, and a run that has returned has persisted the replay of its
\* responses and returned the text of its last message. For a thread id
\* without a checkpoint continueConversation does not fail: it starts a new
\* thread from the defaults, with iterations 0.
C33_ContinueEqualsInvoke ==
    /\ \A r \in Runs, t \in Threads, q \in Queries :
         (ENABLED ContinueConversation(r, t, q, Undefined))
           <=> (ENABLED CallEntry(r, "invokeAgent", t, q, Undefined))
    /\ \A entry \in {"continueConversation", "invokeAgent"} :
         BareCall(entry)
           => LET T == last.input[2]
                  rn == run[last.r]
              IN  /\ rn = StartedRun(last.storeBefore, T, rn.query)
                  /\ store = [last.storeBefore EXCEPT ![T] = rn.st]
                  /\ rn.isNew => /\ rn.loaded = DefaultState
                                 /\ rn.st.iterations = 0
    /\ \A r \in Runs :
         (run[r].pc = "RETURNED" /\ run[r].mode = "invoke")
           => /\ run[r].st = Replay(InputState(run[r].loaded, run[r].query),
                                    Tail(Added(r)))
              /\ store[run[r].thread] = run[r].st
              /\ run[r].result = getMessageText(Last(run[r].st.messages))

\* continueConversation was called with a thread id that has no checkpoint,
\* after a conversation on another thread: a run on a new thread has started
C33_Witness ==
    /\ BareCall("continueConversation")
    /\ invoked = 2
    /\ run[last.r].isNew
    /\ run[last.r].pc = "agent"
    /\ run[last.r].thread = last.input[2]
    /\ store[last.input[2]].iterations = 0
    /\ Len(store[last.input[2]].messages) = 1

====
